---- MODULE Spec2Model ----
(***************************************************************************)
(* Model of dynamic_dynamodb/core/gsi.py: the provisioning loop for global *)
(* secondary indexes (ensure_provisioning), the per-dimension decision     *)
(* functions, the maintenance window check and update_throughput.          *)
(***************************************************************************)
EXTENDS Integers, Sequences, FiniteSets, TLC

\* ------------------------------------------------------------------------
\* Bounds of the model
\* ------------------------------------------------------------------------

\* Longest index listing dynamodb.table_gsis returns in the model.
MaxIndexes == 2

\* Deepest nesting of update_throughput frames the model follows.
MaxDepth == 3

\* ------------------------------------------------------------------------
\* Strings: a Python str is a sequence of one-character strings.
\* ------------------------------------------------------------------------

Digits == <<"0", "1", "2", "3", "4", "5", "6", "7", "8", "9">>

\* Code point of a character (the order Python compares str by).
Ord(c) ==
    CASE c = "," -> 44
      [] c = "-" -> 45
      [] c = "0" -> 48
      [] c = "1" -> 49
      [] c = "2" -> 50
      [] c = "3" -> 51
      [] c = "4" -> 52
      [] c = "5" -> 53
      [] c = "6" -> 54
      [] c = "7" -> 55
      [] c = "8" -> 56
      [] c = "9" -> 57
      [] c = ":" -> 58

\* Index of the first occurrence of sep in s, 0 when there is none.
Find(s, sep) ==
    IF \E i \in 1..Len(s) : s[i] = sep
    THEN CHOOSE i \in 1..Len(s) : s[i] = sep /\ \A j \in 1..(i - 1) : s[j] # sep
    ELSE 0

\* str.split(sep): every piece, empty pieces included.
RECURSIVE Split(_, _)
Split(s, sep) ==
    LET i == Find(s, sep)
    IN  IF i = 0 THEN <<s>>
        ELSE <<SubSeq(s, 1, i - 1)>> \o Split(SubSeq(s, i + 1, Len(s)), sep)

\* str.split(sep, 1): at most one split.
Split1(s, sep) ==
    LET i == Find(s, sep)
    IN  IF i = 0 THEN <<s>>
        ELSE <<SubSeq(s, 1, i - 1), SubSeq(s, i + 1, Len(s))>>

\* ''.join(pieces)
RECURSIVE Join(_)
Join(pieces) ==
    IF pieces = <<>> THEN <<>> ELSE Head(pieces) \o Join(Tail(pieces))

\* Python's a <= b on str: lexicographic by code point, a prefix is smaller.
RECURSIVE StrLE(_, _)
StrLE(a, b) ==
    IF a = <<>> THEN TRUE
    ELSE IF b = <<>> THEN FALSE
    ELSE IF Ord(Head(a)) < Ord(Head(b)) THEN TRUE
    ELSE IF Ord(Head(a)) > Ord(Head(b)) THEN FALSE
    ELSE StrLE(Tail(a), Tail(b))

\* datetime.datetime.utcnow().strftime('%H%M') for the time <<hour, minute>>.
Strftime(t) ==
    <<Digits[(t[1] \div 10) + 1], Digits[(t[1] % 10) + 1],
      Digits[(t[2] \div 10) + 1], Digits[(t[2] % 10) + 1]>>

\* ------------------------------------------------------------------------
\* __is_maintenance_window
\* ------------------------------------------------------------------------

\* The first loop: TRUE when some entry has no '-' (the unpacking of
\* window.split('-', 1) raises ValueError).
Malformatted(maintenance_windows) ==
    \E k \in 1..Len(Split(maintenance_windows, ",")) :
        Len(Split1(Split(maintenance_windows, ",")[k], "-")) # 2

\* The test with both ends excluded.
WindowContainsExclusive(window, now) ==
    LET start == Join(Split(Split1(window, "-")[1], ":"))
        end   == Join(Split(Split1(window, "-")[2], ":"))
    IN  ~StrLE(now, start) /\ ~StrLE(end, now)

\* The second loop's test for one (start, end) pair.
WindowContains(window, now) ==
    LET start == Join(Split(Split1(window, "-")[1], ":"))
        end   == Join(Split(Split1(window, "-")[2], ":"))
    IN  StrLE(start, now) /\ StrLE(now, end)

\* The check with an entry that has no '-' passed over.
is_maintenance_window_skipping(maintenance_windows, t) ==
    LET windows == Split(maintenance_windows, ",")
        now     == Strftime(t)
    IN  \E k \in 1..Len(windows) :
            /\ Len(Split1(windows[k], "-")) = 2
            /\ WindowContains(windows[k], now)

is_maintenance_window(maintenance_windows, t) ==
    LET windows == Split(maintenance_windows, ",")
        now     == Strftime(t)
    IN  IF Malformatted(maintenance_windows) THEN FALSE
        ELSE \E k \in 1..Len(windows) : WindowContains(windows[k], now)

\* ------------------------------------------------------------------------
\* dynamic_dynamodb.calculators.gsi: pure arithmetic, clamped to the
\* configured minimum and maximum of the dimension.
\* ------------------------------------------------------------------------

\* ceil(n / d) for n >= 0, d > 0
CeilDiv(n, d) == (n + d - 1) \div d

Clamp(v, lo, hi) == IF v > hi THEN hi ELSE IF v < lo THEN lo ELSE v

increase_reads_in_percent(current, percent, o) ==
    Clamp(CeilDiv(current * (100 + percent), 100),
          o.gsi_min_provisioned_reads, o.gsi_max_provisioned_reads)

increase_reads_in_units(current, units, o) ==
    Clamp(current + units,
          o.gsi_min_provisioned_reads, o.gsi_max_provisioned_reads)

decrease_reads_in_percent(current, percent, o) ==
    Clamp(CeilDiv(current * (100 - percent), 100),
          o.gsi_min_provisioned_reads, o.gsi_max_provisioned_reads)

decrease_reads_in_units(current, units, o) ==
    Clamp(current - units,
          o.gsi_min_provisioned_reads, o.gsi_max_provisioned_reads)

increase_writes_in_percent(current, percent, o) ==
    Clamp(CeilDiv(current * (100 + percent), 100),
          o.gsi_min_provisioned_writes, o.gsi_max_provisioned_writes)

increase_writes_in_units(current, units, o) ==
    Clamp(current + units,
          o.gsi_min_provisioned_writes, o.gsi_max_provisioned_writes)

decrease_writes_in_percent(current, percent, o) ==
    Clamp(CeilDiv(current * (100 - percent), 100),
          o.gsi_min_provisioned_writes, o.gsi_max_provisioned_writes)

decrease_writes_in_units(current, units, o) ==
    Clamp(current - units,
          o.gsi_min_provisioned_writes, o.gsi_max_provisioned_writes)

\* ------------------------------------------------------------------------
\* The decision functions.  o is the table's options (get_table_option),
\* provisioned and consumed are what gsi_stats returns for the index.
\* The result is the returned pair (update_needed, updated units).
\* ------------------------------------------------------------------------

\* The first branch without its test of the consumed percent.
ZeroSkipNever(consumed_percent, allow_scaling_down_on_0_percent) == FALSE

\* Lines 97-99: the test of the first branch.
ZeroSkip(consumed_percent, allow_scaling_down_on_0_percent) ==
    consumed_percent = 0 /\ ~allow_scaling_down_on_0_percent

\* The ceiling that caps the units and leaves the flag as the branches
\* set it.
MaxCeilingKeepsFlag(d, max_provisioned) ==
    IF d.units > max_provisioned
    THEN [update_needed |-> d.update_needed, units |-> max_provisioned]
    ELSE d

\* Lines 150-154 and 234-238: the ceiling applied to the outcome of the
\* branches above it.
MaxCeiling(d, max_provisioned) ==
    IF d.units > max_provisioned
    THEN [update_needed |-> TRUE, units |-> max_provisioned]
    ELSE d

\* The read decision with the lower threshold tested before the upper.
ensure_provisioning_reads_lower_first(o, provisioned, consumed) ==
    LET updated_read_units == provisioned
        increased ==
            IF o.gsi_increase_reads_unit = "percent"
            THEN increase_reads_in_percent(
                     updated_read_units, o.gsi_increase_reads_with, o)
            ELSE increase_reads_in_units(
                     updated_read_units, o.gsi_increase_reads_with, o)
        decreased ==
            IF o.gsi_decrease_reads_unit = "percent"
            THEN decrease_reads_in_percent(
                     updated_read_units, o.gsi_decrease_reads_with, o)
            ELSE decrease_reads_in_units(
                     updated_read_units, o.gsi_decrease_reads_with, o)
        branches ==
            IF ZeroSkip(consumed, o.allow_scaling_down_reads_on_0_percent)
            THEN [update_needed |-> FALSE, units |-> updated_read_units]
            ELSE IF consumed <= o.gsi_reads_lower_threshold
            THEN [update_needed |-> updated_read_units # decreased,
                  units |-> decreased]
            ELSE IF consumed >= o.gsi_reads_upper_threshold
            THEN [update_needed |-> updated_read_units # increased,
                  units |-> increased]
            ELSE [update_needed |-> FALSE, units |-> updated_read_units]
    IN  MaxCeiling(branches, o.gsi_max_provisioned_reads)

\* Lines 79-159: the read decision.
ensure_provisioning_reads(o, provisioned, consumed) ==
    LET updated_read_units == provisioned
        increased ==
            IF o.gsi_increase_reads_unit = "percent"
            THEN increase_reads_in_percent(
                     updated_read_units, o.gsi_increase_reads_with, o)
            ELSE increase_reads_in_units(
                     updated_read_units, o.gsi_increase_reads_with, o)
        decreased ==
            IF o.gsi_decrease_reads_unit = "percent"
            THEN decrease_reads_in_percent(
                     updated_read_units, o.gsi_decrease_reads_with, o)
            ELSE decrease_reads_in_units(
                     updated_read_units, o.gsi_decrease_reads_with, o)
        branches ==
            IF ZeroSkip(consumed, o.allow_scaling_down_reads_on_0_percent)
            THEN [update_needed |-> FALSE, units |-> updated_read_units]
            ELSE IF consumed >= o.gsi_reads_upper_threshold
            THEN [update_needed |-> updated_read_units # increased,
                  units |-> increased]
            ELSE IF consumed <= o.gsi_reads_lower_threshold
            THEN [update_needed |-> updated_read_units # decreased,
                  units |-> decreased]
            ELSE [update_needed |-> FALSE, units |-> updated_read_units]
    IN  MaxCeiling(branches, o.gsi_max_provisioned_reads)

ensure_provisioning_writes(o, provisioned, consumed) ==
    LET updated_write_units == provisioned
        increased ==
            IF o.gsi_increase_writes_unit = "percent"
            THEN increase_writes_in_percent(
                     updated_write_units, o.gsi_increase_writes_with, o)
            ELSE increase_writes_in_units(
                     updated_write_units, o.gsi_increase_writes_with, o)
        decreased ==
            IF o.gsi_decrease_writes_unit = "percent"
            THEN decrease_writes_in_percent(
                     updated_write_units, o.gsi_decrease_writes_with, o)
            ELSE decrease_writes_in_units(
                     updated_write_units, o.gsi_decrease_writes_with, o)
        branches ==
            IF ZeroSkip(consumed, o.allow_scaling_down_writes_on_0_percent)
            THEN [update_needed |-> FALSE, units |-> updated_write_units]
            ELSE IF consumed >= o.gsi_writes_upper_threshold
            THEN [update_needed |-> updated_write_units # increased,
                  units |-> increased]
            ELSE IF consumed <= o.gsi_writes_lower_threshold
            THEN [update_needed |-> updated_write_units # decreased,
                  units |-> decreased]
            ELSE [update_needed |-> FALSE, units |-> updated_write_units]
    IN  MaxCeiling(branches, o.gsi_max_provisioned_writes)

\* ------------------------------------------------------------------------
\* update_throughput, the pure parts
\* ------------------------------------------------------------------------

\* The block with the branch that reverts a read decrease tested first.
CoupledReadFirst(o, read_units, write_units, current_ru, current_wu) ==
    IF ~o.always_decrease_rw_together
    THEN <<read_units, write_units>>
    ELSE IF read_units < current_ru
    THEN <<current_ru, write_units>>
    ELSE IF write_units < current_wu
    THEN <<read_units, current_wu>>
    ELSE <<read_units, write_units>>

\* Lines 331-357: the always_decrease_rw_together block.  The result is
\* the (read_units, write_units) pair after it.
CoupledScaleDown(o, read_units, write_units, current_ru, current_wu) ==
    IF ~o.always_decrease_rw_together
    THEN <<read_units, write_units>>
    ELSE IF read_units < current_ru
            \/ current_ru = o.gsi_min_provisioned_reads
    THEN <<read_units, write_units>>
    ELSE IF read_units < current_ru
    THEN <<current_ru, write_units>>
    ELSE IF write_units < current_wu
    THEN <<read_units, current_wu>>
    ELSE <<read_units, write_units>>

\* Lines 302-305: what update_throughput records as the index's current
\* units.  prov is the index's provisioned capacity at that moment; both
\* values are read through gsi_stats.get_provisioned_read_units.
CurrentRU(prov) == prov.read

CurrentWU(prov) == prov.read

\* The window test with its `not` dropped.
OutsideWindowInverted(o, t) ==
    o.maintenance_windows # <<>>
    /\ is_maintenance_window(o.maintenance_windows, t)

\* Lines 308-310: TRUE when the maintenance window test returns early.
OutsideWindow(o, t) ==
    o.maintenance_windows # <<>>
    /\ ~is_maintenance_window(o.maintenance_windows, t)

\* The update issued whatever dry_run says.
IssuesUpdateAlways(o) == TRUE

\* Line 359: TRUE when table.update is called.
IssuesUpdate(o) == ~o.dry_run

\* The gate with the test of is_open() inverted.
CircuitBreakerGateInverted(o, open) == o.circuit_breaker_url /\ ~open

\* Lines 22-23: TRUE when ensure_provisioning returns at the gate.
CircuitBreakerGate(o, open) == o.circuit_breaker_url /\ open

\* ------------------------------------------------------------------------
\* Inputs of the model
\* ------------------------------------------------------------------------

table_name == "orders"

key_name == "orders"

AllIndexNames == <<"by_customer", "by_date", "by_status", "by_region">>

\* What dynamodb.table_gsis may return: the index names in listing order.
Listings == {SubSeq(AllIndexNames, 1, n) : n \in 0..MaxIndexes}

Units == {50, 100, 150}

Capacities == [read : Units, write : Units]

\* Provisioned capacity of an index when ensure_provisioning evaluates it.
RunCapacities == {[read |-> 100, write |-> 50], [read |-> 50, write |-> 150]}

NoCapacity == [read |-> 0, write |-> 0]

ConsumedPercents == {0, 10, 95}

Statuses == {"ACTIVE", "CREATING"}

\* Outcome of table.update: success, or the exception name after '#' in
\* error.body['__type'].
Responses ==
    {"ok", "LimitExceededException", "ValidationException",
     "ResourceInUseException", "AccessDeniedException",
     "InternalServerError"}

\* <<hour, minute>> of utcnow
Times == {<<8, 59>>, <<9, 30>>}

NoWindows == <<>>

Window0900To1000 ==
    <<"0", "9", ":", "0", "0", "-", "1", "0", ":", "0", "0">>

WindowNoSeparator == <<"0", "9", "0", "0">>

WindowConfigs == {NoWindows, Window0900To1000, WindowNoSeparator}

DefaultOptions ==
    [circuit_breaker_url |-> FALSE,
     dry_run |-> FALSE,
     maintenance_windows |-> NoWindows,
     always_decrease_rw_together |-> FALSE,
     allow_scaling_down_reads_on_0_percent |-> FALSE,
     allow_scaling_down_writes_on_0_percent |-> FALSE,
     gsi_reads_upper_threshold |-> 80,
     gsi_reads_lower_threshold |-> 20,
     gsi_writes_upper_threshold |-> 80,
     gsi_writes_lower_threshold |-> 20,
     gsi_increase_reads_unit |-> "percent",
     gsi_increase_reads_with |-> 50,
     gsi_decrease_reads_unit |-> "percent",
     gsi_decrease_reads_with |-> 50,
     gsi_increase_writes_unit |-> "percent",
     gsi_increase_writes_with |-> 50,
     gsi_decrease_writes_unit |-> "percent",
     gsi_decrease_writes_with |-> 50,
     gsi_min_provisioned_reads |-> 1,
     gsi_max_provisioned_reads |-> 200,
     gsi_min_provisioned_writes |-> 1,
     gsi_max_provisioned_writes |-> 200]

\* Configurations that vary what ensure_provisioning reads.
RunConfigs ==
    {[DefaultOptions EXCEPT
        !.circuit_breaker_url = url,
        !.allow_scaling_down_reads_on_0_percent = zr,
        !.allow_scaling_down_writes_on_0_percent = zw,
        !.gsi_decrease_writes_with = dw] :
     url \in BOOLEAN, zr \in BOOLEAN, zw \in BOOLEAN, dw \in {0, 50}}

\* Configurations that vary what update_throughput reads.
UpdaterConfigs ==
    {[DefaultOptions EXCEPT
        !.dry_run = dry,
        !.maintenance_windows = mw,
        !.always_decrease_rw_together = tog,
        !.gsi_min_provisioned_reads = minr] :
     dry \in BOOLEAN, mw \in WindowConfigs, tog \in BOOLEAN,
     minr \in {1, 50}}

Configs == RunConfigs \cup UpdaterConfigs

\* ------------------------------------------------------------------------
\* State
\* ------------------------------------------------------------------------

VARIABLES
    opt,        \* the configuration (global and table options)
    is_open,    \* what circuit_breaker.is_open() answers
    pc,         \* where the caller of this module is
    gsis,       \* ensure_provisioning: the listing
    idx,        \* ensure_provisioning: position of the loop in gsis
    decisions,  \* ensure_provisioning: one record per index evaluated
    pending,    \* a call of update_throughput about to bind its arguments
    stack,      \* the update_throughput frames, outermost first
    inv,        \* one record per execution of update_throughput's body
    updates,    \* the table.update calls issued, in order
    remote,     \* counters of the other remote calls
    raised,     \* the exception that left the module, "none" otherwise
    entry,      \* the function of this module the caller entered
    probe       \* the decision function applied on its own, and its result

vars ==
    <<opt, is_open, pc, gsis, idx, decisions, pending, stack, inv, updates,
      remote, raised, entry, probe>>

NoCall == [args |-> <<>>, caller |-> "none"]

NoRemote == [breaker |-> 0, listing |-> 0, stats |-> 0, calls |-> 0]

NoProbe ==
    [dimension |-> "none", provisioned |-> 0, consumed |-> 0,
     update_needed |-> FALSE, units |-> 0]

Init ==
    /\ opt \in Configs
    \* without a circuit_breaker_url there is no breaker to be open
    /\ is_open \in (IF opt.circuit_breaker_url THEN BOOLEAN ELSE {FALSE})
    /\ pc = "idle"
    /\ gsis = <<>>
    /\ idx = 0
    /\ decisions = <<>>
    /\ pending = NoCall
    /\ stack = <<>>
    /\ inv = <<>>
    /\ updates = <<>>
    /\ remote = NoRemote
    /\ raised = "none"
    /\ entry = "none"
    /\ probe = NoProbe

\* ------------------------------------------------------------------------
\* The call sites of update_throughput: the positional arguments passed.
\* ------------------------------------------------------------------------

\* Lines 66-70, in ensure_provisioning.
EnsureCallArgs(index_name, updated_read_units, updated_write_units) ==
    <<table_name, updated_read_units, updated_write_units, key_name>>

\* The nested calls with the index name passed as well.
RetryCallArgsWithIndex(index_name, read_units, write_units, throughput) ==
    IF read_units > throughput.read
    THEN <<table_name, index_name, read_units, throughput.write, key_name>>
    ELSE IF write_units > throughput.write
    THEN <<table_name, index_name, throughput.read, write_units, key_name>>
    ELSE <<>>

\* Lines 374-392, in the LimitExceededException handler: the arguments of
\* the nested call, <<>> when neither branch is taken.
RetryCallArgs(index_name, read_units, write_units, throughput) ==
    IF read_units > throughput.read
    THEN <<table_name, read_units, throughput.write, key_name>>
    ELSE IF write_units > throughput.write
    THEN <<table_name, throughput.read, write_units, key_name>>
    ELSE <<>>

\* The handler with ResourceInUseException retried like a limit rejection.
RetriesBusyToo(dynamodb_error) ==
    dynamodb_error \in {"LimitExceededException", "ResourceInUseException"}

\* Lines 370-392: the one rejection whose handler makes a nested call.
\* The handlers of lines 394-418 only log.
Retries(dynamodb_error) == dynamodb_error = "LimitExceededException"

\* Lines 281-282: update_throughput has five required parameters; a call
\* with any other number of positional arguments raises TypeError before
\* the body runs.
Binds(args) == Len(args) = 5

\* ------------------------------------------------------------------------
\* ensure_provisioning
\* ------------------------------------------------------------------------

\* The loop moves to the next index, or the function returns.
NextIndex ==
    /\ idx' = idx + 1
    /\ pc' = IF idx + 1 > Len(gsis) THEN "done" ELSE "loop"

\* Lines 22-41: the gate, the listing and the early return on no indexes.
ensure_provisioning ==
    /\ pc = "idle"
    /\ IF CircuitBreakerGate(opt, is_open)
       THEN /\ pc' = "done"
            /\ remote' = [remote EXCEPT !.breaker = 1]
            /\ UNCHANGED <<gsis, idx>>
       ELSE \E listing \in Listings :
            /\ gsis' = listing
            /\ remote' = [remote EXCEPT
                    !.breaker = IF opt.circuit_breaker_url THEN 1 ELSE 0,
                    !.listing = 1]
            /\ IF listing = <<>>
               THEN pc' = "done" /\ idx' = 0
               ELSE pc' = "loop" /\ idx' = 1
    /\ entry' = "ensure_provisioning"
    /\ UNCHANGED <<opt, is_open, decisions, pending, stack, inv, updates,
                   raised, probe>>

\* Lines 43-76: one iteration of the loop, up to the call of
\* update_throughput or the "No need to change" branch.
evaluate_index ==
    /\ pc = "loop"
    /\ \E prov \in RunCapacities, cr \in ConsumedPercents,
          cw \in ConsumedPercents :
        LET r == ensure_provisioning_reads(opt, prov.read, cr)
            w == ensure_provisioning_writes(opt, prov.write, cw)
        IN  /\ decisions' = Append(decisions,
                   [index_name |-> gsis[idx],
                    provisioned |-> prov,
                    consumed |-> [read |-> cr, write |-> cw],
                    read_update_needed |-> r.update_needed,
                    updated_read_units |-> r.units,
                    write_update_needed |-> w.update_needed,
                    updated_write_units |-> w.units])
            /\ remote' = [remote EXCEPT !.stats = @ + 4]
            /\ IF r.update_needed \/ w.update_needed
               THEN /\ pending' =
                        [args |-> EnsureCallArgs(gsis[idx], r.units, w.units),
                         caller |-> "ensure_provisioning"]
                    /\ pc' = "calling"
                    /\ idx' = idx
               ELSE /\ pending' = NoCall
                    /\ NextIndex
    /\ UNCHANGED <<opt, is_open, gsis, stack, inv, updates, raised, entry,
                   probe>>

\* ------------------------------------------------------------------------
\* update_throughput
\* ------------------------------------------------------------------------

\* A caller outside this module calls update_throughput with its five
\* arguments.
invoke_update_throughput ==
    /\ pc = "idle"
    /\ \E ru \in Units, wu \in Units :
        pending' = [args |-> <<table_name, AllIndexNames[1], ru, wu, key_name>>,
                    caller |-> "caller"]
    /\ pc' = "direct"
    /\ entry' = "update_throughput"
    /\ UNCHANGED <<opt, is_open, gsis, idx, decisions, stack, inv, updates,
                   remote, raised, probe>>

\* The call itself: the arguments are bound to the parameters of lines
\* 281-282 and the body starts, or TypeError is raised at the call site.
\* No frame of this module catches TypeError (the nested calls sit in an
\* except block, the call of ensure_provisioning in no try), so it leaves
\* the module.
call_update_throughput ==
    /\ pending # NoCall
    /\ Len(stack) < MaxDepth
    /\ remote' = [remote EXCEPT !.calls = @ + 1]
    /\ pending' = NoCall
    /\ IF Binds(pending.args)
       THEN /\ stack' = Append(stack,
                   [index_name |-> pending.args[2],
                    read_units |-> pending.args[3],
                    write_units |-> pending.args[4]])
            /\ UNCHANGED <<pc, raised>>
       ELSE /\ stack' = <<>>
            /\ raised' = "TypeError"
            /\ pc' = "raised"
    /\ UNCHANGED <<opt, is_open, gsis, idx, decisions, inv, updates, entry,
                   probe>>

\* The attempt's outcome, named as the states of one update attempt.
Outcome(exists, skip, dry_run, resp, retry) ==
    IF ~exists THEN "NO_TABLE"
    ELSE IF skip THEN "SKIPPED_WINDOW"
    ELSE IF dry_run THEN "DRY_RUN"
    ELSE IF resp = "ok" THEN "APPLIED"
    ELSE IF resp = "LimitExceededException"
    THEN (IF retry # <<>> THEN "REJECTED_RETRIED" ELSE "REJECTED_TERMINAL")
    ELSE IF resp \in {"ValidationException", "ResourceInUseException",
                      "AccessDeniedException"}
    THEN "REJECTED_TERMINAL"
    ELSE "UNHANDLED"

\* Lines 296-418 for the innermost frame, with what the remote side
\* answers: exists (get_table finds the table), prov (the index's
\* provisioned capacity), t (utcnow), status (get_gsi_status), resp (the
\* outcome of table.update) and throughput (table.throughput).
Body(f, exists, prov, t, status, resp, throughput) ==
    LET current_ru == CurrentRU(prov)
        current_wu == CurrentWU(prov)
        skip   == exists /\ OutsideWindow(opt, t)
        final  == CoupledScaleDown(opt, f.read_units, f.write_units,
                                   current_ru, current_wu)
        issued == exists /\ ~skip /\ IssuesUpdate(opt)
        retry  == IF issued /\ Retries(resp)
                  THEN RetryCallArgs(f.index_name, final[1], final[2],
                                     throughput)
                  ELSE <<>>
    IN  /\ inv' = Append(inv,
               [depth |-> Len(stack),
                index_name |-> f.index_name,
                read_units |-> f.read_units,
                write_units |-> f.write_units,
                provisioned |-> prov,
                current_ru |-> current_ru,
                current_wu |-> current_wu,
                now |-> t,
                gsi_status |-> status,
                final |-> final,
                issued |-> issued,
                response |-> resp,
                throughput |-> throughput,
                outcome |-> Outcome(exists, skip, opt.dry_run, resp, retry)])
        /\ updates' = IF issued
                      THEN Append(updates,
                               [read |-> final[1], write |-> final[2],
                                depth |-> Len(stack)])
                      ELSE updates
        /\ remote' = [remote EXCEPT
                !.stats = @ + (IF exists THEN 2 ELSE 0)]
        /\ IF retry # <<>>
           THEN /\ pending' = [args |-> retry, caller |-> "update_throughput"]
                /\ UNCHANGED <<stack, pc, idx>>
           ELSE \* the frame returns, and with it every frame waiting on it
                /\ pending' = NoCall
                /\ stack' = <<>>
                /\ IF pc = "calling"
                   THEN NextIndex
                   ELSE pc' = "done" /\ idx' = idx

update_throughput ==
    /\ stack # <<>>
    /\ pending = NoCall
    /\ \E exists \in BOOLEAN :
       \E prov \in (IF exists THEN Capacities ELSE {NoCapacity}),
          t \in (IF exists /\ opt.maintenance_windows # <<>>
                 THEN Times ELSE {<<0, 0>>}) :
       \E status \in (IF exists /\ ~OutsideWindow(opt, t)
                      THEN Statuses ELSE {"UNFETCHED"}),
          resp \in (IF exists /\ ~OutsideWindow(opt, t) /\ IssuesUpdate(opt)
                    THEN Responses ELSE {"none"}) :
       \E throughput \in (IF resp = "LimitExceededException"
                          THEN Capacities ELSE {NoCapacity}) :
           Body(stack[Len(stack)], exists, prov, t, status, resp, throughput)
    /\ UNCHANGED <<opt, is_open, gsis, decisions, raised, entry, probe>>

Next ==
    \/ ensure_provisioning
    \/ evaluate_index
    \/ invoke_update_throughput
    \/ call_update_throughput
    \/ update_throughput

Spec == Init /\ [][Next]_vars

\* The caller got control back: a return, or an exception.
Finished == pc \in {"done", "raised"}

\* Every step the module can take is taken sooner or later: the code is
\* sequential and each remote call is one synchronous request/response.
FairSpec == Spec /\ WF_vars(Next)

\* ------------------------------------------------------------------------
\* The decision functions on their own, over a wider range of options
\* ------------------------------------------------------------------------

EngineUnits == {1, 50, 100, 300}

EnginePercents == {0, 10, 20, 50, 80, 95}

\* The same policy for both dimensions.
EngineConfigs ==
    {[DefaultOptions EXCEPT
        !.allow_scaling_down_reads_on_0_percent = allow,
        !.allow_scaling_down_writes_on_0_percent = allow,
        !.gsi_reads_upper_threshold = upper,
        !.gsi_writes_upper_threshold = upper,
        !.gsi_reads_lower_threshold = lower,
        !.gsi_writes_lower_threshold = lower,
        !.gsi_increase_reads_unit = kind,
        !.gsi_increase_writes_unit = kind,
        !.gsi_decrease_reads_unit = kind,
        !.gsi_decrease_writes_unit = kind,
        !.gsi_increase_reads_with = amount,
        !.gsi_increase_writes_with = amount,
        !.gsi_decrease_reads_with = amount,
        !.gsi_decrease_writes_with = amount,
        !.gsi_min_provisioned_reads = lo,
        !.gsi_min_provisioned_writes = lo,
        !.gsi_max_provisioned_reads = hi,
        !.gsi_max_provisioned_writes = hi] :
     allow \in BOOLEAN, upper \in {0, 80}, lower \in {0, 20, 90},
     kind \in {"percent", "units"}, amount \in {0, 50},
     lo \in {1, 50}, hi \in {75, 200}}

EngineInit ==
    /\ opt \in EngineConfigs
    /\ is_open = FALSE
    /\ pc = "idle"
    /\ gsis = <<>>
    /\ idx = 0
    /\ decisions = <<>>
    /\ pending = NoCall
    /\ stack = <<>>
    /\ inv = <<>>
    /\ updates = <<>>
    /\ remote = NoRemote
    /\ raised = "none"
    /\ entry = "none"
    /\ probe = NoProbe

decide_reads ==
    /\ \E provisioned \in EngineUnits, consumed \in EnginePercents :
        LET d == ensure_provisioning_reads(opt, provisioned, consumed)
        IN  probe' = [dimension |-> "reads", provisioned |-> provisioned,
                      consumed |-> consumed,
                      update_needed |-> d.update_needed, units |-> d.units]
    /\ UNCHANGED <<opt, is_open, pc, gsis, idx, decisions, pending, stack,
                   inv, updates, remote, raised, entry>>

decide_writes ==
    /\ \E provisioned \in EngineUnits, consumed \in EnginePercents :
        LET d == ensure_provisioning_writes(opt, provisioned, consumed)
        IN  probe' = [dimension |-> "writes", provisioned |-> provisioned,
                      consumed |-> consumed,
                      update_needed |-> d.update_needed, units |-> d.units]
    /\ UNCHANGED <<opt, is_open, pc, gsis, idx, decisions, pending, stack,
                   inv, updates, remote, raised, entry>>

EngineNext == decide_reads \/ decide_writes

EngineSpec == EngineInit /\ [][EngineNext]_vars

\* ------------------------------------------------------------------------
\* The maintenance window check on its own, over more window lists
\* ------------------------------------------------------------------------

\* Longest window list configured.
MaxWindows == 2

\* An entry of the list: <<start hour, start minute, end hour, end minute>>,
\* or <<>> for an entry written without its '-'.
WindowShapes == {<<9, 0, 10, 0>>, <<13, 0, 14, 0>>, <<23, 0, 1, 0>>, <<>>}

WindowLists ==
    UNION {[1..n -> WindowShapes] : n \in 1..MaxWindows}

TwoDigits(n) == <<Digits[(n \div 10) + 1], Digits[(n % 10) + 1]>>

\* The entry as it is written in the option: 'HH:MM-HH:MM', or '0900'.
WindowText(w) ==
    IF w = <<>> THEN WindowNoSeparator
    ELSE TwoDigits(w[1]) \o <<":">> \o TwoDigits(w[2]) \o <<"-">>
         \o TwoDigits(w[3]) \o <<":">> \o TwoDigits(w[4])

\* The option's value for a list: its entries with ',' between them.
RECURSIVE WindowsOption(_)
WindowsOption(list) ==
    IF Len(list) = 1 THEN WindowText(list[1])
    ELSE WindowText(list[1]) \o <<",">> \o WindowsOption(Tail(list))

WindowTimes ==
    {<<0, 0>>, <<0, 30>>, <<8, 59>>, <<9, 0>>, <<9, 30>>, <<10, 0>>,
     <<10, 1>>, <<13, 30>>, <<23, 0>>, <<23, 30>>}

WindowInit ==
    /\ opt \in {[DefaultOptions EXCEPT
                    !.maintenance_windows = WindowsOption(list)] :
                list \in WindowLists}
    /\ is_open = FALSE
    /\ pc = "idle"
    /\ gsis = <<>>
    /\ idx = 0
    /\ decisions = <<>>
    /\ pending = NoCall
    /\ stack = <<>>
    /\ inv = <<>>
    /\ updates = <<>>
    /\ remote = NoRemote
    /\ raised = "none"
    /\ entry = "none"
    /\ probe = NoProbe

check_window ==
    /\ \E t \in WindowTimes :
        probe' = [dimension |-> "window", now |-> t,
                  in_window |->
                      is_maintenance_window(opt.maintenance_windows, t)]
    /\ UNCHANGED <<opt, is_open, pc, gsis, idx, decisions, pending, stack,
                   inv, updates, remote, raised, entry>>

WindowNext == check_window

WindowSpec == WindowInit /\ [][WindowNext]_vars

\* ------------------------------------------------------------------------
\* Properties
\* ------------------------------------------------------------------------

EnsureRun == entry = "ensure_provisioning"

DirectCall == entry = "update_throughput"

Needed(d) == d.read_update_needed \/ d.write_update_needed

\* C1: with a circuit breaker configured and reported open, a run of
\* ensure_provisioning lists no indexes, fetches no capacity or metrics,
\* makes no call of update_throughput, issues no remote update and decides
\* nothing for any index.
C1_BreakerOpenNoRemoteCalls ==
    (EnsureRun /\ opt.circuit_breaker_url /\ is_open)
        => /\ remote.listing = 0
           /\ remote.stats = 0
           /\ remote.calls = 0
           /\ pending = NoCall
           /\ updates = <<>>
           /\ decisions = <<>>
           /\ raised = "none"

C1_Witness ==
    EnsureRun /\ opt.circuit_breaker_url /\ is_open /\ pc = "done"

\* C2 (as claimed): an execution of update_throughput that fetched an
\* index status other than ACTIVE issues no remote update and raises
\* nothing.
C2_NotActiveNoUpdate ==
    \A k \in DOMAIN inv :
        inv[k].gsi_status \notin {"ACTIVE", "UNFETCHED"}
            => /\ ~inv[k].issued
               /\ \A u \in DOMAIN updates : updates[u].depth < inv[k].depth
               /\ raised = "none"

\* C3 (as claimed): with always_decrease_rw_together, current capacity
\* (R, W) and a proposal (R', W) with R' < R and W not the configured
\* minimum, the remote update carries (R, W).
C3_ReadOnlyDecreaseReverted ==
    \A k \in DOMAIN inv :
        (/\ opt.always_decrease_rw_together
         /\ inv[k].issued
         /\ inv[k].read_units < inv[k].provisioned.read
         /\ inv[k].write_units = inv[k].provisioned.write
         /\ inv[k].provisioned.write # opt.gsi_min_provisioned_writes)
            => inv[k].final = <<inv[k].provisioned.read,
                                inv[k].provisioned.write>>

\* C4 (as claimed): no remote update carries a read or a write value
\* higher than the proposal update_throughput was called with.
C4_NeverAboveProposal ==
    \A k \in DOMAIN inv :
        inv[k].issued
            => /\ inv[k].final[1] <= inv[k].read_units
               /\ inv[k].final[2] <= inv[k].write_units

\* C4 (amended): the read value of a remote update is never higher than
\* the proposed read_units; the write value is higher than the proposed
\* write_units only when always_decrease_rw_together reverts a proposed
\* write below current_wu, and then it is the current_wu the function
\* recorded.
C4_AboveProposalOnlyByRevert ==
    \A k \in DOMAIN inv :
        inv[k].issued
            => /\ inv[k].final[1] <= inv[k].read_units
               /\ \/ inv[k].final[2] <= inv[k].write_units
                  \/ /\ opt.always_decrease_rw_together
                     /\ inv[k].write_units < inv[k].current_wu
                     /\ inv[k].final[2] = inv[k].current_wu

C4_Witness ==
    \E k \in DOMAIN inv :
        /\ inv[k].issued
        /\ opt.always_decrease_rw_together
        /\ inv[k].final[2] > inv[k].write_units

\* The safety part of C5.
C5_RetrySafe ==
    /\ Len(stack) <= 2
    /\ pending.caller = "update_throughput" => Len(stack) <= 1
    /\ \A k \in DOMAIN inv : inv[k].depth <= 2
    /\ Cardinality({k \in DOMAIN updates : updates[k].depth > 1}) <= 2
    /\ \A k \in DOMAIN inv :
        inv[k].outcome \in {"APPLIED", "SKIPPED_WINDOW", "SKIPPED_NOT_ACTIVE",
                            "REJECTED_TERMINAL"}
            => /\ k = Len(inv)
               /\ pending = NoCall
               /\ stack = <<>>
               /\ \A u \in DOMAIN updates : updates[u].depth <= inv[k].depth

\* C5: one call of update_throughput ends; only its outermost frame
\* makes a nested call (one split), at most two retry updates follow the
\* first update, and after an attempt that ends in APPLIED, a SKIPPED
\* state or REJECTED_TERMINAL nothing more is called or issued.  The call
\* ends because it is never stuck before the caller has control back and
\* each of its steps binds a call or runs a body, of which there are at
\* most three each.
C5_RetryBounded ==
    /\ C5_RetrySafe
    /\ DirectCall
        => /\ Finished \/ ENABLED Next
           /\ remote.calls <= 3
           /\ Len(inv) <= 3

\* The same termination as a property of the fair behaviours.
C5_Terminates == DirectCall ~> Finished

C5_Witness ==
    /\ DirectCall
    /\ Finished
    /\ \E k \in DOMAIN inv :
        inv[k].response = "LimitExceededException"
        /\ inv[k].outcome = "REJECTED_RETRIED"

\* C6 (as claimed): after a limit_exceeded rejection of a proposal above
\* the table's throughput in both dimensions, exactly one retry update
\* follows, and exactly one of its dimensions differs from the table's
\* throughput.
C6_OneSingleDimensionRetry ==
    (/\ DirectCall
     /\ Finished
     /\ inv # <<>>
     /\ inv[1].issued
     /\ inv[1].response = "LimitExceededException"
     /\ inv[1].final[1] > inv[1].throughput.read
     /\ inv[1].final[2] > inv[1].throughput.write)
        => /\ Len(updates) = 2
           /\ (updates[2].read # inv[1].throughput.read)
                  # (updates[2].write # inv[1].throughput.write)

\* C7 (as claimed): in a finished run, an index whose read or write
\* decision needs a change got exactly one execution of update_throughput
\* with its name and both proposed values; an index that needs no change
\* got none, and no remote update.
C7_OneUpdaterCallPerChange ==
    (EnsureRun /\ Finished)
        => \A k \in DOMAIN decisions :
            LET d == decisions[k]
                bodies == {j \in DOMAIN inv :
                              inv[j].depth = 1
                              /\ inv[j].index_name = d.index_name}
            IN  IF Needed(d)
                THEN /\ Cardinality(bodies) = 1
                     /\ \A j \in bodies :
                           /\ inv[j].read_units = d.updated_read_units
                           /\ inv[j].write_units = d.updated_write_units
                ELSE /\ bodies = {}
                     /\ d.updated_read_units = d.provisioned.read
                     /\ d.updated_write_units = d.provisioned.write

\* C8 (as claimed): a finished run has evaluated every index of the
\* listing, whatever happened to the indexes before it.
C8_SiblingsEvaluated ==
    (EnsureRun /\ Finished /\ ~(opt.circuit_breaker_url /\ is_open))
        => /\ Len(decisions) = Len(gsis)
           /\ \A k \in DOMAIN decisions : decisions[k].index_name = gsis[k]

\* The configured maximum of the dimension the decision function was
\* applied to.
ProbeMax ==
    IF probe.dimension = "reads"
    THEN opt.gsi_max_provisioned_reads
    ELSE opt.gsi_max_provisioned_writes

ProbeZeroDisabled ==
    /\ probe.dimension # "none"
    /\ probe.consumed = 0
    /\ IF probe.dimension = "reads"
       THEN ~opt.allow_scaling_down_reads_on_0_percent
       ELSE ~opt.allow_scaling_down_writes_on_0_percent

\* C9 (as claimed): at 0 percent consumed with scale-down-on-zero
\* disabled, the proposal is never lower than the provisioned value.
C9_ZeroNeverDecreases ==
    ProbeZeroDisabled => probe.units >= probe.provisioned

\* C9 (amended): at 0 percent consumed with scale-down-on-zero disabled,
\* the proposal is the provisioned value, or the configured maximum when
\* the provisioned value exceeds it: never lower than the lower of the two.
C9_ZeroKeepsUpToMax ==
    ProbeZeroDisabled
        => probe.units = IF probe.provisioned > ProbeMax
                         THEN ProbeMax
                         ELSE probe.provisioned

C9_Witness ==
    /\ ProbeZeroDisabled
    /\ probe.provisioned <= ProbeMax
    /\ probe.provisioned > 1
    /\ opt.gsi_reads_lower_threshold >= 0
    /\ opt.gsi_decrease_reads_with > 0
    /\ ~probe.update_needed

\* The minute of the day of a time <<hour, minute>>.
MinuteOfDay(t) == t[1] * 60 + t[2]

\* The windows each configured list stands for, as minutes of the day.
ConfiguredWindows(maintenance_windows) ==
    IF maintenance_windows = Window0900To1000
    THEN {<<9 * 60, 10 * 60>>}
    ELSE {}

OutsideEveryWindow(maintenance_windows, t) ==
    \A w \in ConfiguredWindows(maintenance_windows) :
        ~(w[1] <= MinuteOfDay(t) /\ MinuteOfDay(t) <= w[2])

\* C10: an execution of update_throughput with a maintenance window list
\* configured and the time outside every window issues no remote update
\* and raises nothing; with an empty list the window test is passed over
\* and the execution goes on to fetch the index status.
C10_WindowGate ==
    \A k \in DOMAIN inv :
        inv[k].outcome # "NO_TABLE"
            => /\ (opt.maintenance_windows # NoWindows
                   /\ OutsideEveryWindow(opt.maintenance_windows, inv[k].now))
                      => /\ ~inv[k].issued
                         /\ inv[k].outcome = "SKIPPED_WINDOW"
                         /\ raised = "none"
                         /\ \A u \in DOMAIN updates :
                               updates[u].depth < inv[k].depth
               /\ opt.maintenance_windows = NoWindows
                      => /\ inv[k].outcome # "SKIPPED_WINDOW"
                         /\ inv[k].gsi_status # "UNFETCHED"

C10_Witness ==
    \E k \in DOMAIN inv :
        /\ opt.maintenance_windows = Window0900To1000
        /\ inv[k].now = <<8, 59>>
        /\ inv[k].outcome = "SKIPPED_WINDOW"
        /\ Finished

\* The rejections that are logged as warnings and end the attempt.
TerminalRejections ==
    {"ValidationException", "ResourceInUseException", "AccessDeniedException"}

\* C11: an execution of update_throughput whose table.update is rejected
\* with ValidationException, ResourceInUseException or
\* AccessDeniedException makes no nested call, issues no further remote
\* update and returns to its caller without an exception.
C11_TerminalRejectionsNoRetry ==
    \A k \in DOMAIN inv :
        (inv[k].issued /\ inv[k].response \in TerminalRejections)
            => /\ k = Len(inv)
               /\ pending = NoCall
               /\ stack = <<>>
               /\ raised = "none"
               /\ pc = "done"
               /\ Cardinality({u \in DOMAIN updates :
                                  updates[u].depth >= inv[k].depth}) = 1

C11_Witness ==
    /\ DirectCall
    /\ pc = "done"
    /\ Len(inv) = 1
    /\ inv[1].issued
    /\ inv[1].response = "ResourceInUseException"
    /\ inv[1].read_units > inv[1].provisioned.read
    /\ Len(updates) = 1

\* The list the configured option was written from.
ConfiguredList ==
    CHOOSE list \in WindowLists : WindowsOption(list) = opt.maintenance_windows

WindowProbed == probe.dimension = "window"

\* C12: when some entry of the configured list lacks its '-', the check
\* reports not-in-window, also when another entry of the list contains
\* the time.
C12_MalformedFailsClosed ==
    (WindowProbed /\ \E k \in DOMAIN ConfiguredList : ConfiguredList[k] = <<>>)
        => ~probe.in_window

C12_Witness ==
    /\ WindowProbed
    /\ ConfiguredList = <<<<9, 0, 10, 0>>, <<>>>>
    /\ probe.now = <<9, 30>>
    /\ ~probe.in_window

\* C13: with dry_run set, no execution of update_throughput issues a
\* remote update, whatever the proposal, the index status and the policy.
C13_DryRunNoUpdate ==
    opt.dry_run
        => /\ updates = <<>>
           /\ \A k \in DOMAIN inv :
                 ~inv[k].issued /\ inv[k].response = "none"

C13_Witness ==
    /\ opt.dry_run
    /\ opt.always_decrease_rw_together
    /\ DirectCall
    /\ pc = "done"
    /\ Len(inv) = 1
    /\ inv[1].outcome = "DRY_RUN"
    /\ inv[1].gsi_status = "ACTIVE"
    /\ inv[1].read_units > inv[1].provisioned.read

\* The index of the end-to-end example: provisioned (100, 50), consumed
\* 95 percent of reads and 10 percent of writes.
ExampleDecision(d) ==
    /\ d.provisioned = [read |-> 100, write |-> 50]
    /\ d.consumed = [read |-> 95, write |-> 10]

\* The options of the example: thresholds 80 and 20, reads increased by 50
\* percent, no window, no dry run, breaker closed.  The example leaves the
\* write decrease amount open; it is taken as 0, the one amount with which
\* the 10 percent of writes (below the lower threshold) leave the write
\* units unchanged.
ExampleOptions ==
    /\ ~(opt.circuit_breaker_url /\ is_open)
    /\ ~opt.dry_run
    /\ opt.maintenance_windows = NoWindows
    /\ opt.gsi_reads_upper_threshold = 80
    /\ opt.gsi_reads_lower_threshold = 20
    /\ opt.gsi_writes_upper_threshold = 80
    /\ opt.gsi_writes_lower_threshold = 20
    /\ opt.gsi_increase_reads_unit = "percent"
    /\ opt.gsi_increase_reads_with = 50
    /\ opt.gsi_decrease_writes_with = 0

\* C14 (as claimed): in a finished run with the example's options, the
\* example's index is proposed (150, 50) and a remote update carrying
\* (150, 50) has been issued.
C14_EndToEndUpdateIssued ==
    (EnsureRun /\ Finished /\ ExampleOptions)
        => \A k \in DOMAIN decisions :
            ExampleDecision(decisions[k])
                => /\ decisions[k].updated_read_units = 150
                   /\ decisions[k].updated_write_units = 50
                   /\ \E u \in DOMAIN updates :
                         updates[u].read = 150 /\ updates[u].write = 50

\* C15 (as claimed): with always_decrease_rw_together, current capacity
\* (R, W) and a proposal (R, W') with W' < W and R not the configured
\* minimum of reads, the remote update carries (R, W).
C15_WriteOnlyDecreaseReverted ==
    \A k \in DOMAIN inv :
        (/\ opt.always_decrease_rw_together
         /\ inv[k].issued
         /\ inv[k].read_units = inv[k].provisioned.read
         /\ inv[k].write_units < inv[k].provisioned.write
         /\ inv[k].provisioned.read # opt.gsi_min_provisioned_reads)
            => inv[k].final = <<inv[k].provisioned.read,
                                inv[k].provisioned.write>>

\* The probed decision, its options and the branch the inputs select.
ProbeDecided == probe.dimension \in {"reads", "writes"}

ProbeReads == probe.dimension = "reads"

ProbeUpper ==
    IF ProbeReads
    THEN opt.gsi_reads_upper_threshold
    ELSE opt.gsi_writes_upper_threshold

ProbeLower ==
    IF ProbeReads
    THEN opt.gsi_reads_lower_threshold
    ELSE opt.gsi_writes_lower_threshold

ProbeIncreased ==
    IF ProbeReads
    THEN IF opt.gsi_increase_reads_unit = "percent"
         THEN increase_reads_in_percent(
                  probe.provisioned, opt.gsi_increase_reads_with, opt)
         ELSE increase_reads_in_units(
                  probe.provisioned, opt.gsi_increase_reads_with, opt)
    ELSE IF opt.gsi_increase_writes_unit = "percent"
         THEN increase_writes_in_percent(
                  probe.provisioned, opt.gsi_increase_writes_with, opt)
         ELSE increase_writes_in_units(
                  probe.provisioned, opt.gsi_increase_writes_with, opt)

ProbeDecreased ==
    IF ProbeReads
    THEN IF opt.gsi_decrease_reads_unit = "percent"
         THEN decrease_reads_in_percent(
                  probe.provisioned, opt.gsi_decrease_reads_with, opt)
         ELSE decrease_reads_in_units(
                  probe.provisioned, opt.gsi_decrease_reads_with, opt)
    ELSE IF opt.gsi_decrease_writes_unit = "percent"
         THEN decrease_writes_in_percent(
                  probe.provisioned, opt.gsi_decrease_writes_with, opt)
         ELSE decrease_writes_in_units(
                  probe.provisioned, opt.gsi_decrease_writes_with, opt)

ProbeZeroSkipped == ProbeDecided /\ ProbeZeroDisabled

ProbeIncreasePath ==
    ProbeDecided /\ ~ProbeZeroSkipped /\ probe.consumed >= ProbeUpper

ProbeDecreasePath ==
    /\ ProbeDecided /\ ~ProbeZeroSkipped
    /\ probe.consumed < ProbeUpper
    /\ probe.consumed <= ProbeLower

ProbeMidBand ==
    /\ ProbeDecided /\ ~ProbeZeroSkipped
    /\ probe.consumed < ProbeUpper
    /\ probe.consumed > ProbeLower

\* C16 (as claimed): the proposal never exceeds the configured maximum,
\* and when the provisioned value exceeds the maximum the decision is
\* change-needed with the proposal equal to the maximum.
C16_AboveMaxProposesMax ==
    ProbeDecided
        => /\ probe.units <= ProbeMax
           /\ probe.provisioned > ProbeMax
                => probe.update_needed /\ probe.units = ProbeMax

\* C16 (amended): the proposal never exceeds the configured maximum; when
\* the provisioned value exceeds the maximum the decision is change-needed
\* and the proposal is the maximum, except on the decrease path, where it
\* is the decrease calculator's result (at most the maximum).
C16_AboveMaxProposesAtMostMax ==
    ProbeDecided
        => /\ probe.units <= ProbeMax
           /\ probe.provisioned > ProbeMax
                => /\ probe.update_needed
                   /\ probe.units = IF ProbeDecreasePath
                                    THEN ProbeDecreased
                                    ELSE ProbeMax

\* A mid-band decision (no threshold crossed) for an index provisioned
\* above the maximum: change-needed, proposal the maximum.
C16_Witness ==
    /\ ProbeMidBand
    /\ probe.provisioned > ProbeMax
    /\ probe.update_needed
    /\ probe.units = ProbeMax

\* C17 (as claimed): after a limit_exceeded rejection, update_throughput
\* runs again with the proposed read and the table's actual write when the
\* proposed read exceeds the actual read; otherwise with the actual read
\* and the proposed write when the proposed write exceeds the actual
\* write; otherwise no further call is made.
C17_RetryOrder ==
    (/\ DirectCall
     /\ Finished
     /\ inv # <<>>
     /\ inv[1].issued
     /\ inv[1].response = "LimitExceededException")
        => IF inv[1].final[1] > inv[1].throughput.read
           THEN /\ Len(inv) >= 2
                /\ inv[2].read_units = inv[1].final[1]
                /\ inv[2].write_units = inv[1].throughput.write
           ELSE IF inv[1].final[2] > inv[1].throughput.write
           THEN /\ Len(inv) >= 2
                /\ inv[2].read_units = inv[1].throughput.read
                /\ inv[2].write_units = inv[1].final[2]
           ELSE remote.calls = 1

\* The outcome of a threshold path that called the calculator and got
\* result, after the ceiling.
ProbeFollows(result) ==
    /\ probe.units = IF result > ProbeMax THEN ProbeMax ELSE result
    /\ probe.update_needed
           = (result # probe.provisioned \/ result > ProbeMax)

\* The outcome of a path that proposes no change, after the ceiling.
ProbeUnchanged ==
    probe.provisioned <= ProbeMax
        => ~probe.update_needed /\ probe.units = probe.provisioned

\* C18: per dimension, the zero-consumption skip is tested first; then
\* consumed >= upper threshold selects the increase calculator, also when
\* consumed <= lower threshold holds too; then consumed <= lower threshold
\* selects the decrease calculator; between the thresholds, with the
\* current value within the maximum, the decision is no change with the
\* proposal equal to the current value.  A threshold path sets
\* change-needed exactly when the calculator's result differs from the
\* current value.
C18_BranchOrder ==
    ProbeDecided
        => /\ ProbeZeroSkipped => ProbeUnchanged
           /\ ProbeIncreasePath => ProbeFollows(ProbeIncreased)
           /\ ProbeDecreasePath => ProbeFollows(ProbeDecreased)
           /\ ProbeMidBand => ProbeUnchanged

\* A decision at a consumed percent that is both at or above the upper and
\* at or below the lower threshold, where the two calculators disagree:
\* the increase is proposed.
C18_Witness ==
    /\ ProbeIncreasePath
    /\ probe.consumed <= ProbeLower
    /\ ProbeIncreased # ProbeDecreased
    /\ probe.update_needed
    /\ probe.units = ProbeIncreased

\* The zero-padded HHMM of an hour and a minute, as a number.
HHMM(h, m) == h * 100 + m

WellFormedList == \A k \in DOMAIN ConfiguredList : ConfiguredList[k] # <<>>

WindowPermits(w, t) ==
    /\ HHMM(w[1], w[2]) <= HHMM(t[1], t[2])
    /\ HHMM(t[1], t[2]) <= HHMM(w[3], w[4])

\* C19: for a well-formed window list, the check reports in-window if and
\* only if some window has start <= now <= end on the HHMM values, both
\* ends included; a window whose start is later than its end permits no
\* time.
C19_InclusiveSameDay ==
    (WindowProbed /\ WellFormedList)
        => /\ probe.in_window
                = \E k \in DOMAIN ConfiguredList :
                      WindowPermits(ConfiguredList[k], probe.now)
           /\ (\A k \in DOMAIN ConfiguredList :
                  HHMM(ConfiguredList[k][1], ConfiguredList[k][2])
                      > HHMM(ConfiguredList[k][3], ConfiguredList[k][4]))
                => ~probe.in_window

\* The window 09:00-10:00 checked at its end, 10:00: in window.
C19_Witness ==
    /\ WindowProbed
    /\ ConfiguredList = <<<<9, 0, 10, 0>>>>
    /\ probe.now = <<10, 0>>
    /\ probe.in_window

\* The other cases named: 09:30 and 09:00 are in the window 09:00-10:00,
\* 08:59 is not, and 23:00-01:00 contains neither 23:30 nor 00:30.
C19_Examples ==
    WindowProbed
        => /\ ConfiguredList = <<<<9, 0, 10, 0>>>>
                => /\ probe.now \in {<<9, 0>>, <<9, 30>>} => probe.in_window
                   /\ probe.now = <<8, 59>> => ~probe.in_window
           /\ ConfiguredList = <<<<23, 0, 1, 0>>>>
                => ~probe.in_window

====
